---- MODULE Spec2Model ----
(***************************************************************************)
(* A model of the binary heap of src/src/binary-heap.js: the factory and   *)
(* init, insert / peek / remove, and the two recursive sift handlers.      *)
(*                                                                         *)
(* JavaScript values are records [t, n]: t is the kind of the value and n  *)
(* the number it holds (0 when the kind holds none).  The storage array is *)
(* a sequence; the operators keep the code's zero-based indices and At     *)
(* translates them.                                                        *)
(***************************************************************************)
EXTENDS Integers, Sequences, FiniteSets, Bags, TLC

VARIABLES
    constructed,    \* whether the factory has returned a heap
    thrown,         \* the message of the Error the factory threw, or "none"
    argMode,        \* the mode the factory was called with
    argComparator,  \* the comparator the factory was called with
    mode,           \* this[_mode]
    comparator,     \* this[_comparator]
    storage,        \* this[_storage]
    lastOp,         \* the last call made
    lastResult,     \* the value the last call returned
    netCount,       \* the insert calls made minus the remove calls made
    phase,          \* "fill": inserts only so far; "drain": inserts, then
                    \* removes only; "mixed": anything else
    inserted,       \* the bag of the elements inserted (fill and drain)
    removed,        \* the values the remove calls returned (drain)
    mirrorComparator,   \* the comparator c of a pair of heaps driven by the
                        \* same calls
    maxStorage,     \* this[_storage] of the pair's Max heap, built with c
    minStorage,     \* this[_storage] of the pair's Min heap, built with
                    \* (a, b) => -c(a, b)
    mirrorOp,       \* the last call made on the pair
    maxResult,      \* what that call returned from the Max heap
    minResult,      \* what that call returned from the Min heap
    mirrorEmptyRemoved  \* a remove() on the pair has found the storages empty

\* the variables of the single heap
heapVars == <<constructed, thrown, argMode, argComparator, mode, comparator,
              storage, lastOp, lastResult, netCount, phase, inserted, removed>>

\* the variables of the pair of heaps
mirrorVars == <<mirrorComparator, maxStorage, minStorage, mirrorOp,
                maxResult, minResult, mirrorEmptyRemoved>>

vars == <<constructed, thrown, argMode, argComparator, mode, comparator,
          storage, lastOp, lastResult, netCount, phase, inserted, removed,
          mirrorComparator, maxStorage, minStorage, mirrorOp,
          maxResult, minResult, mirrorEmptyRemoved>>

(* ------------------------------ bounds -------------------------------- *)

\* the largest number inserted; the elements are the numbers -1 .. MaxVal
MaxVal == 1
\* the longest storage an insert is tried on
MaxLen == 5
\* how often remove() is called on an empty storage
MaxEmptyRemoves == 2

(* ------------------------- JavaScript values -------------------------- *)

Num(k) == [t |-> "number", n |-> k]
Undefined == [t |-> "undefined", n |-> 0]
False == [t |-> "boolean", n |-> 0]
NaN == [t |-> "NaN", n |-> 0]

\* the elements the callers insert: the numbers of the test sequence's kind,
\* with -1 and the falsy 0 among them
Elements == {Num(k) : k \in -1 .. MaxVal}

\* ToNumber: undefined is NaN, false is 0
ToNumber(v) == IF v.t = "undefined" THEN NaN
               ELSE IF v.t = "boolean" THEN Num(v.n)
               ELSE v

\* a < b on values: false as soon as one side is NaN
JsLt(a, b) == /\ ToNumber(a).t = "number"
              /\ ToNumber(b).t = "number"
              /\ ToNumber(a).n < ToNumber(b).n

\* a - b on values
JsSub(a, b) == IF ToNumber(a).t = "number" /\ ToNumber(b).t = "number"
               THEN Num(ToNumber(a).n - ToNumber(b).n)
               ELSE NaN

\* Math.abs(a) on values
JsAbs(a) == IF ToNumber(a).t = "number"
            THEN Num(IF ToNumber(a).n < 0 THEN 0 - ToNumber(a).n ELSE ToNumber(a).n)
            ELSE NaN

\* r *= k for a number k
JsMul(r, k) == IF ToNumber(r).t = "number" THEN Num(ToNumber(r).n * k) ELSE NaN

\* r >= 0: false for NaN
JsGe0(r) == ToNumber(r).t = "number" /\ ToNumber(r).n >= 0

\* the truthiness test of `while (el = h.remove())`
Falsy(v) == \/ v.t = "undefined"
            \/ v.t = "NaN"
            \/ (v.t = "boolean" /\ v.n = 0)
            \/ (v.t = "number" /\ v.n = 0)

(* ------------------------ modes and comparators ----------------------- *)

MinHeap == "MinHeap"
MaxHeap == "MaxHeap"

\* the default comparator: (a < b) ? -1 : (a > b) ? 1 : 0
naivePrimitiveComparator(a, b) == IF JsLt(a, b) THEN Num(-1)
                                  ELSE IF JsLt(b, a) THEN Num(1)
                                  ELSE Num(0)

\* the callers' comparators (a, b) => a - b and (a, b) => b - a
subtract(a, b) == JsSub(a, b)
subtractReversed(a, b) == JsSub(b, a)

\* a caller's comparator that ranks numbers by magnitude,
\* (a, b) => Math.abs(a) - Math.abs(b): it is 0 on the distinct -1 and 1
absolute(a, b) == JsSub(JsAbs(a), JsAbs(b))

Comparators == {"naivePrimitiveComparator", "subtract", "subtractReversed",
                "absolute"}

\* this[_comparator](a, b)
Compare(c, a, b) == CASE c = "subtract" -> subtract(a, b)
                      [] c = "subtractReversed" -> subtractReversed(a, b)
                      [] c = "absolute" -> absolute(a, b)
                      [] c = "naivePrimitiveComparatorReversed"
                            -> JsMul(naivePrimitiveComparator(a, b), -1)
                      [] c = "absoluteReversed" -> JsMul(absolute(a, b), -1)
                      [] OTHER -> naivePrimitiveComparator(a, b)

\* the reversed comparator (a, b) => -c(a, b) of a comparator c
Reversed(c) == CASE c = "subtract" -> "subtractReversed"
                 [] c = "subtractReversed" -> "subtract"
                 [] c = "absolute" -> "absoluteReversed"
                 [] OTHER -> "naivePrimitiveComparatorReversed"

\* what a caller may pass as mode and as comparator; "undefined" is an
\* argument left out
ModeArgs == {"undefined", MinHeap, MaxHeap, "foo"}
ComparatorArgs == {"undefined", "subtract", "subtractReversed", "absolute",
                   "nope"}

\* -1 === [MinHeap, MaxHeap].indexOf(mode) is false
ValidMode(m) == m \in {MinHeap, MaxHeap}

\* 'function' === typeof comparator
IsFunction(c) == c \in Comparators

(* ------------------------------ storage ------------------------------- *)

\* storage[i], zero-based; a read out of bounds is undefined
At(s, i) == IF i >= 0 /\ i < Len(s) THEN s[i + 1] ELSE Undefined

\* [s[i], s[j]] = [a, b]
Assign2(s, i, a, j, b) == [k \in 1 .. Len(s) |->
                             IF k = j + 1 THEN b
                             ELSE IF k = i + 1 THEN a
                             ELSE s[k]]

\* storage.pop(): the storage left behind
PopRest(s) == IF Len(s) = 0 THEN s ELSE SubSeq(s, 1, Len(s) - 1)

\* storage.pop(): the value returned
PopValue(s) == IF Len(s) = 0 THEN Undefined ELSE s[Len(s)]

\* storage[0] = v: the assignment extends an empty array to length 1
SetRoot(s, v) == IF Len(s) = 0 THEN <<v>> ELSE [s EXCEPT ![1] = v]

(* --------------------------- the sift handlers ------------------------ *)

\* a heap-down that never looks at the right child
ComparisonIndexLeftOnly(s, m, c, index) == 2 * index + 1

\* the child heap-down compares against
ComparisonIndex(s, m, c, index) ==
    LET leftChildIndex == 2 * index + 1
        rightChildIndex == 2 * index + 2
        childComparisonResult ==
            Compare(c, At(s, leftChildIndex), At(s, rightChildIndex))
    IN  IF leftChildIndex < Len(s) /\ rightChildIndex < Len(s)
        THEN IF m = MaxHeap
             THEN (IF JsGe0(childComparisonResult)
                   THEN leftChildIndex ELSE rightChildIndex)
             ELSE (IF JsGe0(childComparisonResult)
                   THEN rightChildIndex ELSE leftChildIndex)
        ELSE leftChildIndex

\* whether heap-down stops at index: the mode-adjusted comparison is >= 0
DownHolds(s, m, c, index) ==
    LET comparisonValue == At(s, ComparisonIndex(s, m, c, index))
        comparisonResult ==
            JsMul(Compare(c, At(s, index), comparisonValue),
                  IF m = MinHeap THEN -1 ELSE 1)
    IN  JsGe0(comparisonResult)

RECURSIVE heapDown(_, _, _, _)
heapDown(s, m, c, index) ==
    IF 2 * index + 1 >= Len(s) THEN s
    ELSE IF DownHolds(s, m, c, index) THEN s
    ELSE LET comparisonIndex == ComparisonIndex(s, m, c, index)
         IN  heapDown(Assign2(s, comparisonIndex, At(s, index),
                              index, At(s, comparisonIndex)),
                      m, c, comparisonIndex)

\* the calls of heap-down that heapDown(s, m, c, index) makes, outermost
\* first: each with the storage it finds and the index it is given
RECURSIVE heapDownFrames(_, _, _, _)
heapDownFrames(s, m, c, index) ==
    IF 2 * index + 1 >= Len(s) THEN <<[storage |-> s, index |-> index]>>
    ELSE IF DownHolds(s, m, c, index) THEN <<[storage |-> s, index |-> index]>>
    ELSE LET comparisonIndex == ComparisonIndex(s, m, c, index)
         IN  <<[storage |-> s, index |-> index]>>
             \o heapDownFrames(Assign2(s, comparisonIndex, At(s, index),
                                       index, At(s, comparisonIndex)),
                               m, c, comparisonIndex)

\* the parent index of a one-based array
ParentIndexOneBased(index) == index \div 2

\* a heap-up that walks the storage backwards, one index at a time
ParentIndexPrevious(index) == index - 1

\* Math.floor((index - 1) / 2)
ParentIndex(index) == (index - 1) \div 2

\* a heap-up that stops only when the mode-adjusted comparison is > 0
UpHoldsStrict(s, m, c, index) ==
    LET comparisonResult ==
            JsMul(Compare(c, At(s, index), At(s, (index - 1) \div 2)),
                  IF m = MaxHeap THEN -1 ELSE 1)
    IN  JsGe0(comparisonResult) /\ comparisonResult # Num(0)

\* whether heap-up stops at index: the mode-adjusted comparison is >= 0
UpHolds(s, m, c, index) ==
    LET comparisonResult ==
            JsMul(Compare(c, At(s, index), At(s, ParentIndex(index))),
                  IF m = MaxHeap THEN -1 ELSE 1)
    IN  JsGe0(comparisonResult)

RECURSIVE heapUp(_, _, _, _)
heapUp(s, m, c, index) ==
    IF UpHolds(s, m, c, index) THEN s
    ELSE LET parentIndex == ParentIndex(index)
             swapped == Assign2(s, parentIndex, At(s, index),
                                index, At(s, parentIndex))
         IN  IF parentIndex = 0 THEN swapped
             ELSE heapUp(swapped, m, c, parentIndex)

\* the calls of heap-up that heapUp(s, m, c, index) makes, outermost first
RECURSIVE heapUpFrames(_, _, _, _)
heapUpFrames(s, m, c, index) ==
    IF UpHolds(s, m, c, index) THEN <<[storage |-> s, index |-> index]>>
    ELSE LET parentIndex == ParentIndex(index)
             swapped == Assign2(s, parentIndex, At(s, index),
                                index, At(s, parentIndex))
         IN  IF parentIndex = 0 THEN <<[storage |-> s, index |-> index]>>
             ELSE <<[storage |-> s, index |-> index]>>
                  \o heapUpFrames(swapped, m, c, parentIndex)

(* --------------------------- the operations --------------------------- *)

\* the calls of heap-up that insert(element) makes
InsertFrames(s, m, c, element) ==
    IF Len(s) = 0 THEN <<>>
    ELSE heapUpFrames(Append(s, element), m, c, Len(s))

\* the calls of heap-down that remove() makes
RemoveFrames(s, m, c) ==
    IF Len(s) = 1 THEN <<>>
    ELSE heapDownFrames(SetRoot(PopRest(s), PopValue(s)), m, c, 0)

\* the storage insert(element) leaves
InsertStorage(s, m, c, element) ==
    LET pushed == Append(s, element)
    IN  IF Len(pushed) = 1 THEN pushed
        ELSE heapUp(pushed, m, c, Len(pushed) - 1)

\* the value peek() returns
PeekValue(s) == IF Len(s) # 0 THEN At(s, 0) ELSE False

\* a remove() that returns the element it popped off the end
RemoveValueLast(s) == PopValue(s)

\* the value remove() returns
RemoveValue(s) == IF Len(s) = 1 THEN PopValue(s) ELSE At(s, 0)

\* the storage remove() leaves
RemoveStorage(s, m, c) ==
    IF Len(s) = 1 THEN PopRest(s)
    ELSE heapDown(SetRoot(PopRest(s), PopValue(s)), m, c, 0)

(* ----------------------------- the machine ---------------------------- *)

Init ==
    /\ constructed = FALSE
    /\ thrown = "none"
    /\ argMode = "undefined"
    /\ argComparator = "undefined"
    /\ mode = "undefined"
    /\ comparator = "undefined"
    /\ storage = <<>>
    /\ lastOp = "none"
    /\ lastResult = Undefined
    /\ netCount = 0
    /\ phase = "fill"
    /\ inserted = EmptyBag
    /\ removed = <<>>
    /\ mirrorComparator = "naivePrimitiveComparator"
    /\ maxStorage = <<>>
    /\ minStorage = <<>>
    /\ mirrorOp = "none"
    /\ maxResult = Undefined
    /\ minResult = Undefined
    /\ mirrorEmptyRemoved = FALSE

\* a Factory whose default mode is MaxHeap
DefaultModeMax(modeArg) == IF modeArg = "undefined" THEN MaxHeap ELSE modeArg

\* the default parameters of Factory
DefaultMode(modeArg) == IF modeArg = "undefined" THEN MinHeap ELSE modeArg
DefaultComparator(comparatorArg) ==
    IF comparatorArg = "undefined" THEN "naivePrimitiveComparator"
    ELSE comparatorArg

\* an init that validates the comparator before the mode
InitThrowsComparatorFirst(m, c) ==
    IF ~IsFunction(c) THEN "Invalid comparator"
    ELSE IF ~ValidMode(m) THEN "Invalid mode"
    ELSE "none"

\* what init(mode, comparator) throws, "none" when it returns
InitThrows(m, c) == IF ~ValidMode(m) THEN "Invalid mode"
                    ELSE IF ~IsFunction(c) THEN "Invalid comparator"
                    ELSE "none"

\* Factory(modeArg, comparatorArg): Object.create(BinaryHeap).init(...)
Factory(modeArg, comparatorArg) ==
    /\ ~constructed
    /\ UNCHANGED mirrorVars
    /\ argMode' = modeArg
    /\ argComparator' = comparatorArg
    /\ lastOp' = "Factory"
    /\ thrown' = InitThrows(DefaultMode(modeArg), DefaultComparator(comparatorArg))
    /\ constructed' = (thrown' = "none")
    /\ mode' = IF thrown' = "none" THEN DefaultMode(modeArg) ELSE mode
    /\ comparator' = IF thrown' = "none" THEN DefaultComparator(comparatorArg)
                     ELSE comparator
    /\ storage' = <<>>
    /\ UNCHANGED <<lastResult, netCount, phase, inserted, removed>>

\* how many remove calls found the storage empty
EmptyRemoves == (Len(storage) - netCount) \div 2

\* h.insert(element)
Insert(element) ==
    /\ constructed
    /\ UNCHANGED mirrorVars
    /\ Len(storage) < MaxLen
    /\ storage' = InsertStorage(storage, mode, comparator, element)
    /\ lastOp' = "insert"
    /\ lastResult' = Undefined
    /\ netCount' = netCount + 1
    /\ phase' = IF phase = "fill" THEN "fill" ELSE "mixed"
    /\ inserted' = IF phase = "fill" THEN inserted (+) SetToBag({element})
                   ELSE EmptyBag
    /\ removed' = <<>>
    /\ UNCHANGED <<constructed, thrown, argMode, argComparator, mode, comparator>>

\* a peek() that takes the root out of the storage
PeekConsuming ==
    /\ constructed
    /\ UNCHANGED mirrorVars
    /\ lastOp' = "peek"
    /\ lastResult' = PeekValue(storage)
    /\ storage' = IF Len(storage) = 0 THEN storage
                  ELSE RemoveStorage(storage, mode, comparator)
    /\ UNCHANGED <<constructed, thrown, argMode, argComparator, mode, comparator,
                   netCount, phase, inserted, removed>>

\* h.peek()
Peek ==
    /\ constructed
    /\ UNCHANGED mirrorVars
    /\ lastOp' = "peek"
    /\ lastResult' = PeekValue(storage)
    /\ UNCHANGED <<constructed, thrown, argMode, argComparator, mode, comparator,
                   storage, netCount, phase, inserted, removed>>

\* whether the remove calls so far are a drain that has not yet run past
\* the end of the heap
Draining == phase \in {"fill", "drain"} /\ Len(removed) <= BagCardinality(inserted)

\* h.remove()
Remove ==
    /\ constructed
    /\ UNCHANGED mirrorVars
    /\ (Len(storage) > 0 \/ EmptyRemoves < MaxEmptyRemoves)
    /\ storage' = RemoveStorage(storage, mode, comparator)
    /\ lastOp' = "remove"
    /\ lastResult' = RemoveValue(storage)
    /\ netCount' = netCount - 1
    /\ phase' = IF Draining THEN "drain" ELSE "mixed"
    /\ inserted' = IF Draining THEN inserted ELSE EmptyBag
    /\ removed' = IF Draining THEN Append(removed, RemoveValue(storage)) ELSE <<>>
    /\ UNCHANGED <<constructed, thrown, argMode, argComparator, mode, comparator>>

Next ==
    \/ \E modeArg \in ModeArgs, comparatorArg \in ComparatorArgs :
          Factory(modeArg, comparatorArg)
    \/ \E element \in Elements : Insert(element)
    \/ Peek
    \/ Remove

Spec == Init /\ [][Next]_vars

(* ------------------- a pair of heaps, driven together ------------------ *)

\* Factory(MaxHeap, c) and Factory(MinHeap, (a, b) => -c(a, b)) have
\* returned; nothing has been called on either heap
MirrorInit ==
    /\ constructed = FALSE
    /\ thrown = "none"
    /\ argMode = "undefined"
    /\ argComparator = "undefined"
    /\ mode = "undefined"
    /\ comparator = "undefined"
    /\ storage = <<>>
    /\ lastOp = "none"
    /\ lastResult = Undefined
    /\ netCount = 0
    /\ phase = "fill"
    /\ inserted = EmptyBag
    /\ removed = <<>>
    /\ mirrorComparator \in Comparators
    /\ maxStorage = <<>>
    /\ minStorage = <<>>
    /\ mirrorOp = "none"
    /\ maxResult = Undefined
    /\ minResult = Undefined
    /\ mirrorEmptyRemoved = FALSE

\* insert(element) on both heaps
MirrorInsert(element) ==
    /\ Len(maxStorage) < MaxLen
    /\ Len(minStorage) < MaxLen
    /\ maxStorage' = InsertStorage(maxStorage, MaxHeap, mirrorComparator, element)
    /\ minStorage' = InsertStorage(minStorage, MinHeap,
                                   Reversed(mirrorComparator), element)
    /\ mirrorOp' = "insert"
    /\ maxResult' = Undefined
    /\ minResult' = Undefined
    /\ UNCHANGED <<mirrorComparator, mirrorEmptyRemoved>>
    /\ UNCHANGED heapVars

\* peek() on both heaps
MirrorPeek ==
    /\ mirrorOp' = "peek"
    /\ maxResult' = PeekValue(maxStorage)
    /\ minResult' = PeekValue(minStorage)
    /\ UNCHANGED <<mirrorComparator, maxStorage, minStorage,
                   mirrorEmptyRemoved>>
    /\ UNCHANGED heapVars

\* remove() on both heaps
MirrorRemove ==
    /\ maxStorage' = RemoveStorage(maxStorage, MaxHeap, mirrorComparator)
    /\ minStorage' = RemoveStorage(minStorage, MinHeap, Reversed(mirrorComparator))
    /\ mirrorOp' = "remove"
    /\ maxResult' = RemoveValue(maxStorage)
    /\ minResult' = RemoveValue(minStorage)
    /\ mirrorEmptyRemoved' = (mirrorEmptyRemoved \/ Len(maxStorage) = 0
                                                \/ Len(minStorage) = 0)
    /\ UNCHANGED mirrorComparator
    /\ UNCHANGED heapVars

MirrorNext ==
    \/ \E element \in Elements : MirrorInsert(element)
    \/ MirrorPeek
    \/ MirrorRemove

SpecMirror == MirrorInit /\ [][MirrorNext]_vars

(* ------------------------------ the claims ---------------------------- *)

\* r <= 0 on values: false for NaN
JsLe0(r) == ToNumber(r).t = "number" /\ ToNumber(r).n <= 0

\* the relation the mode asks between a parent (or an earlier element) and
\* a child (or a later one): comparator(parent, child) <= 0 in Min mode,
\* >= 0 in Max mode
HeapRelation(m, c, parent, child) ==
    IF m = MinHeap THEN JsLe0(Compare(c, parent, child))
    ELSE JsGe0(Compare(c, parent, child))

\* the heap property of a storage
HeapOk(s, m, c) ==
    \A i \in 0 .. Len(s) - 1 : \A child \in {2 * i + 1, 2 * i + 2} :
        child < Len(s) => HeapRelation(m, c, At(s, i), At(s, child))

\* the root is not worse than any element of the storage
RootExtreme(s, m, c) ==
    \A i \in 0 .. Len(s) - 1 : HeapRelation(m, c, At(s, 0), At(s, i))

\* a sequence in the mode's order: ascending for Min, descending for Max
Sorted(s, m, c) ==
    \A i, j \in 1 .. Len(s) : i < j => HeapRelation(m, c, s[i], s[j])

\* the bag of a sequence's elements
SeqToBag(s) ==
    [e \in {s[i] : i \in 1 .. Len(s)} |->
        Cardinality({i \in 1 .. Len(s) : s[i] = e})]

\* every element of the storage is one a caller inserted
OnlyInserted == \A i \in 1 .. Len(storage) : storage[i] \in Elements

\* C1 (as claimed): in every state reached by insert and remove calls the
\* storage has the heap property: each parent is in the mode's relation to
\* each of its children.  Stated here on the storages that hold inserted
\* elements only, where the comparator is a total order; the code breaks it
\* after a remove() on an empty heap has planted undefined at the root.
C1_HeapProperty ==
    (constructed /\ OnlyInserted) => HeapOk(storage, mode, comparator)

\* C1 (support): while no remove() call has found the storage empty, the
\* heap property holds in every state.
C1_HeapPropertyNoEmptyRemove ==
    (constructed /\ EmptyRemoves = 0) => HeapOk(storage, mode, comparator)

\* C2: a newly constructed heap filled by inserts and then emptied by
\* remove calls has returned exactly the inserted elements, each as often
\* as it was inserted, in ascending comparator order in Min mode and in
\* descending order in Max mode.
C2_SortedExtraction ==
    (/\ constructed
     /\ phase = "drain"
     /\ Len(removed) <= BagCardinality(inserted)
     /\ Len(storage) = 0)
    => /\ SeqToBag(removed) = inserted
       /\ Sorted(removed, mode, comparator)

\* C2 witness: five elements, of three distinct values, were inserted and
\* the heap has been drained to empty.
C2_Witness ==
    /\ constructed
    /\ phase = "drain"
    /\ Len(storage) = 0
    /\ Len(removed) = 5
    /\ BagCardinality(inserted) = 5
    /\ Cardinality(BagToSet(inserted)) = 3

\* C3 (as claimed): after n inserts and k removes with k <= n the storage
\* holds exactly n - k elements.
C3_SizeConservation ==
    (constructed /\ netCount >= 0) => Len(storage) = netCount

\* C3 (support): the count holds while no remove() has found the storage
\* empty.
C3_SizeNoEmptyRemove ==
    (constructed /\ EmptyRemoves = 0) => Len(storage) = netCount

\* C4 (as claimed): on a non-empty heap peek() returns the element at the
\* root, and that element is a minimum (Min) or a maximum (Max) by the
\* comparator of the elements in the heap.  Stated on the storages that
\* hold inserted elements only.
C4_PeekIsExtreme ==
    (constructed /\ Len(storage) > 0 /\ OnlyInserted)
    => /\ PeekValue(storage) = At(storage, 0)
       /\ RootExtreme(storage, mode, comparator)

\* C4 (support): the same while no remove() has found the storage empty.
C4_PeekIsExtremeNoEmptyRemove ==
    (constructed /\ Len(storage) > 0 /\ EmptyRemoves = 0)
    => /\ PeekValue(storage) = At(storage, 0)
       /\ RootExtreme(storage, mode, comparator)

\* C5: remove() on a non-empty heap returns what peek() would have returned
\* just before, and the bag of the stored elements afterwards is the bag
\* before with one occurrence of the returned element taken out.
C5_RemoveTakesRoot ==
    [][(Len(storage) > 0 /\ Remove)
       => /\ lastResult' = PeekValue(storage)
          /\ SeqToBag(storage') (+) SetToBag({lastResult'}) = SeqToBag(storage)
          /\ Len(storage') = Len(storage) - 1]_vars

\* C5 witness: a remove() on a heap of five elements returned the root and
\* left four elements that are not all alike.
C5_Witness ==
    /\ constructed
    /\ lastOp = "remove"
    /\ Len(storage) = 4
    /\ lastResult \in Elements
    /\ Cardinality({storage[i] : i \in 1 .. Len(storage)}) >= 2

\* a heap on which nothing has been inserted and, at most, the call just
\* made has been made
NewlyConstructed ==
    /\ constructed
    /\ BagCardinality(inserted) = 0
    /\ \/ phase = "fill"
       \/ (phase = "drain" /\ Len(removed) = 1 /\ lastOp = "remove")

\* C6 (as claimed): on a newly constructed heap peek() and remove() both
\* return the empty sentinel, the same value false.
C6_EmptySentinel ==
    (NewlyConstructed /\ lastOp \in {"peek", "remove"}) => lastResult = False

\* C6 (support): on a newly constructed heap both calls return a falsy
\* value.
C6_EmptyFalsy ==
    (NewlyConstructed /\ lastOp \in {"peek", "remove"}) => Falsy(lastResult)

\* the values `while (el = h.remove()) outputSequence.push(el)` has pushed
\* once the remove calls have returned r: those before the first falsy one
OutputSequence(r) ==
    LET stops == {i \in 1 .. Len(r) : Falsy(r[i])}
    IN  IF stops = {} THEN r
        ELSE SubSeq(r, 1, (CHOOSE i \in stops : \A j \in stops : i <= j) - 1)

\* the drain loop has just stopped: the last remove() of a drain returned
\* the first falsy value
LoopStopped ==
    /\ constructed
    /\ phase = "drain"
    /\ lastOp = "remove"
    /\ Len(removed) > 0
    /\ Len(OutputSequence(removed)) = Len(removed) - 1

\* C7 (as claimed): a caller that removes until remove() yields the empty
\* sentinel has then received every inserted element, in sorted order: the
\* sentinel comes only from an empty heap.
C7_DrainContract ==
    LoopStopped
    => /\ SeqToBag(OutputSequence(removed)) = inserted
       /\ Sorted(OutputSequence(removed), mode, comparator)
       /\ Len(removed) = BagCardinality(inserted) + 1

\* C7 (support): the contract holds when no inserted element is falsy.
C7_DrainContractTruthy ==
    (LoopStopped /\ \A e \in BagToSet(inserted) : ~Falsy(e))
    => /\ SeqToBag(OutputSequence(removed)) = inserted
       /\ Sorted(OutputSequence(removed), mode, comparator)
       /\ Len(removed) = BagCardinality(inserted) + 1

\* C8: peek() leaves storage, mode and comparator as they are, so the
\* remove calls that follow return what they would have returned, and a
\* peek() that follows a peek() returns the same value.
C8_PeekIdempotent ==
    [][Peek => /\ UNCHANGED <<storage, mode, comparator>>
               /\ RemoveValue(storage') = RemoveValue(storage)
               /\ (lastOp = "peek" => lastResult' = lastResult)]_vars

\* C8 witness: peek() has returned the root of a heap of four elements or
\* more.
C8_Witness ==
    /\ constructed
    /\ lastOp = "peek"
    /\ Len(storage) >= 4
    /\ lastResult = At(storage, 0)

\* C9: the factory throws 'Invalid mode' whenever the mode it is given is
\* neither MinHeap nor MaxHeap, throws 'Invalid comparator' whenever the
\* mode is valid and the comparator it is given is no function, and in
\* both cases returns no heap; otherwise it returns a heap with an empty
\* storage.  (A mode or comparator left out takes its default.)
C9_ConstructionValidation ==
    lastOp # "none" =>
        IF argMode \notin {"undefined", MinHeap, MaxHeap}
        THEN ~constructed /\ thrown = "Invalid mode"
        ELSE IF argComparator \notin (Comparators \cup {"undefined"})
        THEN ~constructed /\ thrown = "Invalid comparator"
        ELSE /\ constructed
             /\ thrown = "none"
             /\ (lastOp = "Factory" => storage = <<>>)

\* C9 witness: the factory, given an invalid mode and an invalid
\* comparator, has thrown and returned no heap.
C9_Witness ==
    /\ lastOp = "Factory"
    /\ argMode = "foo"
    /\ argComparator = "nope"
    /\ thrown # "none"
    /\ ~constructed

\* the values of a sequence of numbers ascend (Min) or descend (Max)
NumericallySorted(s, m) ==
    \A i, j \in 1 .. Len(s) :
        i < j => IF m = MinHeap THEN s[i].n <= s[j].n ELSE s[i].n >= s[j].n

\* C10: Factory() without arguments returns a Min heap under the default
\* comparator, and Factory(mode) a heap of that mode under the default
\* comparator: its root is the least (Min) or greatest (Max) number stored
\* and a drain returns the numbers in ascending (Min) or descending (Max)
\* order.
C10_DefaultConstruction ==
    (lastOp # "none" /\ argComparator = "undefined"
        /\ argMode \in {"undefined", MinHeap, MaxHeap})
    => /\ constructed
       /\ comparator = "naivePrimitiveComparator"
       /\ mode = (IF argMode = MaxHeap THEN MaxHeap ELSE MinHeap)
       /\ (argMode = "undefined" /\ EmptyRemoves = 0
              => \A i \in 1 .. Len(storage) : storage[1].n <= storage[i].n)
       /\ (argMode = MaxHeap /\ EmptyRemoves = 0
              => \A i \in 1 .. Len(storage) : storage[1].n >= storage[i].n)
       /\ (phase = "drain" /\ Len(removed) <= BagCardinality(inserted)
              => NumericallySorted(removed, mode))

\* C10 witness: a heap made by Factory() has been filled with five numbers,
\* not all alike, and drained.
C10_Witness ==
    /\ constructed
    /\ argMode = "undefined"
    /\ argComparator = "undefined"
    /\ phase = "drain"
    /\ Len(removed) = 5
    /\ Len(storage) = 0
    /\ removed[1] # removed[5]

\* C11 (as claimed): remove() on an empty heap leaves the heap empty: the
\* storage has length 0 afterwards, a peek() that follows returns the empty
\* sentinel, and an insert(x) that follows makes x the only stored element.
C11_EmptyRemoveKeepsEmpty ==
    [][(Len(storage) = 0 /\ Remove)
       => /\ Len(storage') = 0
          /\ PeekValue(storage') = False
          /\ \A x \in Elements :
                InsertStorage(storage', mode, comparator, x) = <<x>>]_vars

\* C12 (as claimed): every insert adds the inserted element to the bag of
\* stored elements and nothing else, every remove takes the returned
\* element out of it and nothing else, and the storage never holds an
\* element that was not inserted.
C12_ElementConservation ==
    [][/\ \A e \in Elements :
             Insert(e) => SeqToBag(storage') = SeqToBag(storage) (+) SetToBag({e})
       /\ Remove => SeqToBag(storage') (+) SetToBag({lastResult'})
                       = SeqToBag(storage)
       /\ constructed' => OnlyInserted']_vars

\* C12 (support): the same for the inserts and for the removes from a
\* non-empty storage, while no remove() has found the storage empty.
C12_ConservationNoEmptyRemove ==
    [][EmptyRemoves = 0
       => /\ \A e \in Elements :
                Insert(e) => /\ SeqToBag(storage')
                                   = SeqToBag(storage) (+) SetToBag({e})
                             /\ OnlyInserted'
          /\ (Len(storage) > 0 /\ Remove)
                => /\ SeqToBag(storage') (+) SetToBag({lastResult'})
                         = SeqToBag(storage)
                   /\ OnlyInserted']_vars

\* what the claim asks of one call of heap-down, f, with both children in
\* bounds: the child it compares with is in the mode's relation to its
\* sibling, and, when it swaps, the element it puts at its index is then in
\* the mode's relation to both of its children
ChildChoiceOk(f, m, c) ==
    LET s == f.storage
        left == 2 * f.index + 1
        right == 2 * f.index + 2
        chosen == ComparisonIndex(s, m, c, f.index)
        other == IF chosen = left THEN right ELSE left
        swapped == Assign2(s, chosen, At(s, f.index), f.index, At(s, chosen))
    IN  right < Len(s)
        => /\ chosen \in {left, right}
           /\ HeapRelation(m, c, At(s, chosen), At(s, other))
           /\ ~DownHolds(s, m, c, f.index)
                 => /\ HeapRelation(m, c, At(swapped, f.index), At(swapped, left))
                    /\ HeapRelation(m, c, At(swapped, f.index), At(swapped, right))

\* C13 (as claimed): in every call of heap-down that a remove() makes with
\* both children in bounds, the child compared is not worse than its
\* sibling for the mode, and right after a swap the element at the index
\* is in the heap relation with both of its children.
C13_ChildChoice ==
    constructed
    => \A k \in 1 .. Len(RemoveFrames(storage, mode, comparator)) :
          ChildChoiceOk(RemoveFrames(storage, mode, comparator)[k],
                        mode, comparator)

\* C13 (support): the same while no remove() has found the storage empty.
C13_ChildChoiceNoEmptyRemove ==
    (constructed /\ EmptyRemoves = 0)
    => \A k \in 1 .. Len(RemoveFrames(storage, mode, comparator)) :
          ChildChoiceOk(RemoveFrames(storage, mode, comparator)[k],
                        mode, comparator)

\* the comparison a call of heap-up makes is a tie
TieUp(f, c) ==
    Compare(c, At(f.storage, f.index), At(f.storage, (f.index - 1) \div 2))
        = Num(0)

\* the comparison a call of heap-down makes is a tie
TieDown(f, m, c) ==
    /\ 2 * f.index + 1 < Len(f.storage)
    /\ Compare(c, At(f.storage, f.index),
               At(f.storage, ComparisonIndex(f.storage, m, c, f.index)))
          = Num(0)

\* C14: a call of heap-up whose comparison of the element with its parent
\* is 0 swaps nothing and ends the sift, and so does a call of heap-down
\* whose comparison of the element with the chosen child is 0; inserting an
\* element that compares 0 with every stored element only appends it.
C14_NoSwapOnTies ==
    constructed
    => /\ \A e \in Elements :
            LET frames == InsertFrames(storage, mode, comparator, e)
            IN  /\ \A k \in 1 .. Len(frames) :
                      TieUp(frames[k], comparator)
                      => /\ k = Len(frames)
                         /\ InsertStorage(storage, mode, comparator, e)
                               = frames[k].storage
                /\ (\A i \in 1 .. Len(storage) :
                        Compare(comparator, e, storage[i]) = Num(0))
                    => InsertStorage(storage, mode, comparator, e)
                          = Append(storage, e)
       /\ LET frames == RemoveFrames(storage, mode, comparator)
          IN  \A k \in 1 .. Len(frames) :
                  TieDown(frames[k], mode, comparator)
                  => /\ k = Len(frames)
                     /\ RemoveStorage(storage, mode, comparator)
                           = frames[k].storage

\* C14 witness: the storage is one on which an insert ties with a distinct
\* parent after a swap, and on which the remove ties with a distinct child
\* after a swap.
C14_Witness ==
    /\ constructed
    /\ \E e \in Elements :
          LET frames == InsertFrames(storage, mode, comparator, e)
          IN  /\ Len(frames) >= 2
              /\ TieUp(frames[Len(frames)], comparator)
              /\ At(frames[Len(frames)].storage, frames[Len(frames)].index)
                    # At(frames[Len(frames)].storage,
                         (frames[Len(frames)].index - 1) \div 2)
    /\ LET frames == RemoveFrames(storage, mode, comparator)
           f == frames[Len(frames)]
       IN  /\ Len(frames) >= 2
           /\ TieDown(f, mode, comparator)
           /\ At(f.storage, f.index)
                 # At(f.storage, ComparisonIndex(f.storage, mode, comparator, f.index))

\* the indices from the root down to index n of the tree laid out in the
\* storage, top to bottom
RECURSIVE AncestorPath(_)
AncestorPath(n) ==
    IF n = 0 THEN <<0>> ELSE AncestorPath(((n + 1) \div 2) - 1) \o <<n>>

\* where, top to bottom on the path to the appended index, insert(e) has
\* put e: the places p at which the new path is the old one with e spliced
\* in
SplicePlaces(s, new, e) ==
    LET path == AncestorPath(Len(s))
    IN  {p \in 1 .. Len(path) :
            /\ At(new, path[p]) = e
            /\ \A k \in 1 .. Len(path) :
                  /\ k < p => At(new, path[k]) = At(s, path[k])
                  /\ k > p => At(new, path[k]) = At(s, path[k - 1])}

\* C15: insert(e) on a storage of length n gives a storage of length n + 1
\* that differs from the old one only on the path n, floor((n - 1) / 2),
\* ..., 0: off the path every index holds what it held, and on the path
\* the old elements keep their top-to-bottom order with e spliced in.
C15_InsertFrame ==
    constructed
    => \A e \in Elements :
          LET new == InsertStorage(storage, mode, comparator, e)
              path == AncestorPath(Len(storage))
              onPath == {path[k] : k \in 1 .. Len(path)}
          IN  /\ Len(new) = Len(storage) + 1
              /\ \A i \in 0 .. Len(storage) - 1 :
                    i \notin onPath => At(new, i) = At(storage, i)
              /\ SplicePlaces(storage, new, e) # {}

\* C15 witness: the storage is one on which some insert puts its element in
\* the middle of a path of three, between two elements that differ from it,
\* while an index off the path holds yet another arrangement.
C15_Witness ==
    /\ constructed
    /\ Len(storage) \in {3, 4}
    /\ \E e \in Elements :
          LET new == InsertStorage(storage, mode, comparator, e)
              path == AncestorPath(Len(storage))
          IN  /\ SplicePlaces(storage, new, e) = {2}
              /\ At(new, path[1]) # e
              /\ At(new, path[3]) # e

\* floor(log2(n)) for n >= 1
RECURSIVE Log2Floor(_)
Log2Floor(n) == IF n <= 1 THEN 0 ELSE 1 + Log2Floor(n \div 2)

\* how many of the calls of heap-up swap
SwapsUp(frames, m, c) ==
    Cardinality({k \in 1 .. Len(frames) :
                    ~UpHolds(frames[k].storage, m, c, frames[k].index)})

\* how many of the calls of heap-down swap
SwapsDown(frames, m, c) ==
    Cardinality({k \in 1 .. Len(frames) :
                    /\ 2 * frames[k].index + 1 < Len(frames[k].storage)
                    /\ ~DownHolds(frames[k].storage, m, c, frames[k].index)})

\* C16: every insert and every remove ends.  The calls of heap-up an insert
\* makes are at strictly decreasing indices, none below 1 (the last swap
\* lands no higher than index 0); the calls of heap-down a remove makes are
\* at strictly increasing indices within the storage, and the last one
\* either finds its left child index out of bounds or swaps nothing.  On a
\* storage of n elements either sift makes at most floor(log2(n)) swaps
\* and at most floor(log2(n)) recursive calls of itself.
C16_Termination ==
    constructed
    => /\ \A e \in Elements :
            LET frames == InsertFrames(storage, mode, comparator, e)
                n == Len(storage) + 1
            IN  /\ Len(InsertStorage(storage, mode, comparator, e)) = n
                /\ \A k \in 1 .. Len(frames) :
                      /\ frames[k].index >= 1
                      /\ frames[k].index < n
                      /\ k > 1 => frames[k].index < frames[k - 1].index
                /\ SwapsUp(frames, mode, comparator) <= Log2Floor(n)
                /\ Len(frames) <= Log2Floor(n)
       /\ LET frames == RemoveFrames(storage, mode, comparator)
          IN  Len(storage) # 1
              => /\ Len(frames) >= 1
                 /\ frames[1].index = 0
                 /\ \A k \in 1 .. Len(frames) :
                       /\ k > 1 => /\ frames[k].index > frames[k - 1].index
                                   /\ frames[k].index < Len(frames[k].storage)
                       /\ Len(frames[k].storage) = Len(frames[1].storage)
                 /\ LET last == frames[Len(frames)]
                    IN  \/ 2 * last.index + 1 >= Len(last.storage)
                        \/ DownHolds(last.storage, mode, comparator, last.index)
                 /\ SwapsDown(frames, mode, comparator) = Len(frames) - 1
                 /\ SwapsDown(frames, mode, comparator)
                       <= Log2Floor(Len(frames[1].storage))

\* C16 witness: the storage is one on which some insert swaps all the way
\* to the root, twice, and on which the remove swaps twice, down to a leaf.
C16_Witness ==
    /\ constructed
    /\ Len(storage) = 5
    /\ \E e \in Elements :
          SwapsUp(InsertFrames(storage, mode, comparator, e), mode, comparator) = 2
    /\ SwapsDown(RemoveFrames(storage, mode, comparator), mode, comparator) = 2

\* the comparator is 0 on identical elements only
TiesOnlyIdentical(c) ==
    \A a, b \in Elements : Compare(c, a, b) = Num(0) => a = b

\* C17 (as claimed): a Max heap built with c and a Min heap built with
\* (a, b) => -c(a, b), driven by the same calls, return the same value
\* from every peek and every remove.
C17_ModeSymmetry ==
    mirrorOp \in {"peek", "remove"} => maxResult = minResult

\* C17 (support): while no remove() has found the storages empty, the two
\* values returned are the same or tie under c, and they are the same when
\* c is 0 on identical elements only.
C17_SymmetryUpToTies ==
    (mirrorOp \in {"peek", "remove"} /\ ~mirrorEmptyRemoved)
    => /\ \/ maxResult = minResult
          \/ Compare(mirrorComparator, maxResult, minResult) = Num(0)
       /\ TiesOnlyIdentical(mirrorComparator) => maxResult = minResult

\* C17 (as claimed, kept to the calls before any remove() on empty
\* storages): the two heaps return the same value. It fails where sibling
\* elements that are not identical tie: lines 129-139 give the Max heap the
\* left child on a tie and the Min heap the right one.
C17_TieSplitsModes ==
    ~mirrorEmptyRemoved => maxResult = minResult

====
